---- MODULE Spec2Model ----
(***************************************************************************)
(* The four HEIC command-line tools of the repository as one state machine *)
(* over a small directory tree:                                            *)
(*   heic_strip_and_convert_to_jpg.py  ("strip_convert")                   *)
(*   heic_to_jpg.py                    ("heic_to_jpg")                     *)
(*   sanitize_heic_to_jpg.py           ("sanitize")                        *)
(*   strip_heic_metadata.py            ("strip_only")                      *)
(* A state holds the command line, the directory tree, the position of     *)
(* main() and what it has printed so far.  Strings that the code parses    *)
(* (--ext, file suffixes) are sequences of one-character strings, so that  *)
(* strip(), lower(), lstrip(".") and split(",") are computed, not assumed. *)
(* The results of the external collaborators (ExifTool, the image codec,   *)
(* the unlink system call) are chosen nondeterministically at every call.  *)
(***************************************************************************)
EXTENDS Integers, Sequences, FiniteSets, TLC

VARIABLES
    tool,       \* which script runs
    args,       \* the parsed command line (argparse namespace)
    on_path,    \* whether shutil.which("exiftool") finds the tool
    fs,         \* the directory tree: path -> entry
    fs0,        \* the tree when the current run started
    pc,         \* position of main()
    second,     \* TRUE once the same command line has been started again
    out1,       \* paths created by the first run (empty during the first run)
    exts,       \* the normalised extension set
    listing,    \* directory entries the discover() iterator has not reached yet
    yielded,    \* paths discover() has yielded
    nyield,     \* number of yields
    total,      \* the success counter (total / count)
    counted,    \* paths whose iteration incremented the counter
    log,        \* path -> the kinds of line printed for it in this run
    invoked,    \* paths ExifTool was run on in this run
    removed,    \* paths unlinked in this run
    summary,    \* the summary printed at the end of the run
    status      \* the exit status of the process

vars == <<tool, args, on_path, fs, fs0, pc, second, out1, exts, listing, yielded,
          nyield, total, counted, log, invoked, removed, summary, status>>

---------------------------------------------------------------------------
(* Bounds of the model *)

MaxFiles == 2

Dirs == {"root", "sub"}
Stems == {"a"}

S_heic == <<".", "h", "e", "i", "c">>
S_HEIC == <<".", "H", "E", "I", "C">>
S_heif == <<".", "h", "e", "i", "f">>
S_jpg  == <<".", "j", "p", "g">>
S_txt  == <<".", "t", "x", "t">>
Suffixes == {S_heic, S_HEIC, S_heif, S_jpg, S_txt}

SubSuffixes == {S_HEIC, S_jpg, S_txt}

\* The paths of the modelled tree: root/a.* and root/sub/a.*
Paths == [dir : {"root"}, stem : Stems, suffix : Suffixes]
            \cup [dir : {"sub"}, stem : Stems, suffix : SubSuffixes]

\* The names that may be directories instead of regular files.
DirPaths == {p \in Paths : p.dir = "root" /\ p.suffix \in {S_heic, S_jpg}}

(* --ext values *)
E_default == <<"h", "e", "i", "c", ",", "h", "e", "i", "f">>
E_mixed   == <<".", "H", "E", "I", "C", ",", " ", "j", "p", "g">>
E_empty   == <<>>
E_blank   == <<" ", ",", " ">>
E_comma   == <<",">>
E_dot     == <<".">>

---------------------------------------------------------------------------
(* Program constants *)

DefaultQuality == 90
MinQuality == 1
MaxQuality == 100

---------------------------------------------------------------------------
(* String functions of the Python runtime, on sequences of characters *)

LowerChar(c) ==
    CASE c = "H" -> "h" [] c = "E" -> "e" [] c = "I" -> "i" [] c = "C" -> "c"
      [] c = "F" -> "f" [] c = "J" -> "j" [] c = "P" -> "p" [] c = "G" -> "g"
      [] OTHER -> c

lower(s) == [i \in 1..Len(s) |-> LowerChar(s[i])]

RECURSIVE lstrip(_, _)
lstrip(s, ch) == IF s # <<>> /\ Head(s) = ch THEN lstrip(Tail(s), ch) ELSE s

RECURSIVE rstrip(_, _)
rstrip(s, ch) ==
    IF s # <<>> /\ s[Len(s)] = ch THEN rstrip(SubSeq(s, 1, Len(s) - 1), ch) ELSE s

strip(s) == rstrip(lstrip(s, " "), " ")

RECURSIVE split(_, _)
split(s, sep) ==
    IF \E i \in 1..Len(s) : s[i] = sep
    THEN LET i == CHOOSE k \in 1..Len(s) : s[k] = sep /\ \A j \in 1..(k - 1) : s[j] # sep
         IN  <<SubSeq(s, 1, i - 1)>> \o split(SubSeq(s, i + 1, Len(s)), sep)
    ELSE <<s>>

Range(q) == {q[i] : i \in 1..Len(q)}

---------------------------------------------------------------------------
(* The directory tree *)

\* An entry is a regular file or a directory; img names the picture a file
\* holds (the path it was first seen at) and meta the metadata it carries:
\* "full" (as shot), "dates" (capture-time tags only) or "none".
NoImg == <<"-", "-", <<>>>>
Absent == [type |-> "absent", img |-> NoImg, meta |-> "-"]

Exists(e) == e.type # "absent"
is_file(e) == e.type = "file"

PathId(p) == <<p.dir, p.stem, p.suffix>>

with_suffix(p, suffix) == [p EXCEPT !.suffix = suffix]

NewFile(p) == [type |-> "file", img |-> PathId(p), meta |-> "full"]
NewDir == [type |-> "dir", img |-> NoImg, meta |-> "-"]

Existing(f) == {p \in Paths : Exists(f[p])}

\* The trees a run can start from: at most MaxFiles entries, each a regular
\* file or (for the names in DirPaths) a directory.
Trees ==
    {[p \in Paths |-> IF p \in sd[2] THEN NewDir ELSE IF p \in sd[1] THEN NewFile(p) ELSE Absent] :
        sd \in {x \in (SUBSET Paths) \X (SUBSET DirPaths) :
                   x[2] \subseteq x[1] /\ Cardinality(x[1]) <= MaxFiles}}

---------------------------------------------------------------------------
(* Results of the external collaborators, chosen by the environment *)

ExifResults == {"ok", "nonzero", "nonzero_undecodable", "oserror"}
ImgResults == {"ok", "decode_error", "encode_error"}
UnlinkResults == {"ok", "denied"}
Oracles == [exif : ExifResults, img : ImgResults, unlink : UnlinkResults]
\* The calls a script never makes have no result to choose.
NoExif == {o \in Oracles : o.exif = "ok"}
ExifOnly == {o \in Oracles : o.img = "ok" /\ o.unlink = "ok"}

\* What a per-file helper hands back: the tree, the lines printed, the paths
\* unlinked and the exception raised ("none" when it returned).
Ret(f, lines, gone, exc) == [fs |-> f, lines |-> lines, gone |-> gone, exc |-> exc]

---------------------------------------------------------------------------
(* Per-file helpers *)

\* subprocess.run(["exiftool", "-overwrite_original", "-all=", file], check=True)
strip_all_metadata(f, file, o) ==
    CASE o.exif = "ok"      -> Ret([f EXCEPT ![file].meta = "none"], {}, {}, "none")
      [] o.exif = "oserror" -> Ret(f, {}, {}, "OSError")
      [] o.exif = "nonzero" -> Ret(f, {}, {}, "CalledProcessError")
      [] OTHER              -> Ret(f, {}, {}, "CalledProcessError_undecodable")

\* strip_heic_metadata.strip_metadata: the same call, with the three
\* date/time tags copied back when keep_datetimes is set.
strip_metadata(f, file, keep_datetimes, o) ==
    CASE o.exif = "ok" ->
            Ret([f EXCEPT ![file].meta =
                    IF keep_datetimes /\ f[file].meta # "none" THEN "dates" ELSE "none"],
                {}, {}, "none")
      [] o.exif = "oserror" -> Ret(f, {}, {}, "OSError")
      [] o.exif = "nonzero" -> Ret(f, {}, {}, "CalledProcessError")
      [] OTHER              -> Ret(f, {}, {}, "CalledProcessError_undecodable")

\* Image.open(src) ... im.convert("RGB").save(dst, "JPEG", ...): the entry
\* written at dst; meta is what the saved JPEG carries.
Jpeg(f, src, meta) == [type |-> "file", img |-> f[src].img, meta |-> meta]

\* heic_to_jpg.build_exif_bytes: only the capture-time tags survive.
build_exif_bytes(e) == IF e.meta \in {"full", "dates"} THEN "dates" ELSE "none"

\* ConvertBody with the unlink moved before the decode: the slip that C2
\* excludes.
ConvertBody_UnlinkFirst(f, src, dst, meta, delete, o) ==
    LET h == IF delete /\ o.unlink = "ok" THEN [f EXCEPT ![src] = Absent] ELSE f
        gone == IF delete /\ o.unlink = "ok" THEN {src} ELSE {}
    IN  IF o.img # "ok"
        THEN Ret(h, {}, gone, "Exception")
        ELSE Ret([h EXCEPT ![dst] = Jpeg(f, src, meta)],
                 IF delete THEN {"OK", "DELETED"} ELSE {"OK"}, gone, "none")

\* The body shared by the three convert functions after the destination test:
\* decode, encode, print [OK], then unlink the source when asked to.
ConvertBody(f, src, dst, meta, delete, o) ==
    IF o.img # "ok"
    THEN Ret(f, {}, {}, "Exception")
    ELSE LET g == [f EXCEPT ![dst] = Jpeg(f, src, meta)]
         IN  IF ~delete THEN Ret(g, {"OK"}, {}, "none")
             ELSE IF o.unlink # "ok" THEN Ret(g, {"OK"}, {}, "Exception")
             ELSE Ret([g EXCEPT ![src] = Absent], {"OK", "DELETED"}, {src}, "none")

\* heic_strip_and_convert_to_jpg.convert_to_jpg
convert_to_jpg(f, src, quality, delete_original, o) ==
    LET dst == with_suffix(src, S_jpg)
    IN  IF Exists(f[dst])
        THEN IF ~delete_original THEN Ret(f, {"SKIP"}, {}, "none")
             ELSE IF o.unlink # "ok" THEN Ret(f, {"SKIP"}, {}, "Exception")
             ELSE Ret([f EXCEPT ![src] = Absent], {"SKIP"}, {src}, "none")
        ELSE ConvertBody(f, src, dst, "none", delete_original, o)

\* convert without the destination test: the slip that C4 excludes.
convert_Overwrite(f, src, quality, delete, o) ==
    ConvertBody(f, src, with_suffix(src, S_jpg), build_exif_bytes(f[src]), delete, o)

\* heic_to_jpg.convert
convert(f, src, quality, delete, o) ==
    LET dst == with_suffix(src, S_jpg)
    IN  IF Exists(f[dst])
        THEN Ret(f, {"SKIP"}, {}, "none")
        ELSE ConvertBody(f, src, dst, build_exif_bytes(f[src]), delete, o)

\* sanitize_heic_to_jpg.convert
sanitize_convert(f, src, quality, delete, o) ==
    LET dst == with_suffix(src, S_jpg)
    IN  IF Exists(f[dst])
        THEN Ret(f, {"SKIP"}, {}, "none")
        ELSE ConvertBody(f, src, dst, "none", delete, o)

---------------------------------------------------------------------------
(* Traversal *)

\* root.rglob("*") if recursive else root.iterdir(): the entries listed.
iterator(f, recursive) ==
    {p \in Paths : Exists(f[p]) /\ (recursive \/ p.dir = "root")}

\* The filter without lower(): the slip that C6 excludes.
matches_CaseSensitive(f, p, x) == is_file(f[p]) /\ lstrip(p.suffix, ".") \in x

\* discover()'s filter: p.is_file() and p.suffix.lower().lstrip(".") in exts
matches(f, p, x) == is_file(f[p]) /\ lstrip(lower(p.suffix), ".") \in x

\* The comprehension without its "if e.strip()": the slip that C5 excludes.
normalise_exts_Unfiltered(ext) ==
    {lstrip(lower(strip(e)), ".") : e \in Range(split(ext, ","))}

\* exts = {e.strip().lower().lstrip(".") for e in args.ext.split(",") if e.strip()}
normalise_exts(ext) ==
    {lstrip(lower(strip(e)), ".") : e \in {t \in Range(split(ext, ",")) : strip(t) # <<>>}}

---------------------------------------------------------------------------
(* Command lines *)

Tools == {"strip_convert", "heic_to_jpg", "sanitize", "strip_only"}
ConvertTools == {"strip_convert", "heic_to_jpg", "sanitize"}

Qualities == {MinQuality - 6, MinQuality - 1, MinQuality, DefaultQuality,
              MaxQuality, MaxQuality + 1}
ExtValues == {E_default, E_mixed, E_empty, E_blank, E_comma, E_dot}

\* The namespace argparse builds.  Options a script does not define keep the
\* value they have when absent from its command line.
Args(t, directory, recursive, quality, flag, ext) ==
    [directory |-> directory, recursive |-> recursive,
     quality |-> IF t = "strip_only" THEN DefaultQuality ELSE quality,
     keep |-> (t = "strip_convert" /\ flag),
     delete |-> (t \in {"heic_to_jpg", "sanitize"} /\ flag),
     keep_datetimes |-> (t = "strip_only" /\ flag),
     ext |-> ext]

\* The switch with --keep read the wrong way round: the slip that C8 excludes.
delete_originals_Inverted(t, a) == IF t = "strip_convert" THEN a.keep ELSE a.delete

\* Whether this command line makes the script unlink sources.
delete_originals(t, a) == IF t = "strip_convert" THEN ~a.keep ELSE a.delete

NoSummary == [shape |-> "none", n |-> 0, noun |-> "-"]
Processed(n) == [shape |-> "processed", n |-> n,
                 noun |-> IF n # 1 THEN "files" ELSE "file"]
NoneProcessed == [shape |-> "no_files_processed", n |-> 0, noun |-> "-"]
NoneMatched == [shape |-> "no_files_matched", n |-> 0, noun |-> "-"]

\* A tree with one picture in the root and one in the sub-folder.
SamplePaths == {[dir |-> "root", stem |-> "a", suffix |-> S_heic],
                [dir |-> "sub", stem |-> "a", suffix |-> S_HEIC]}
SampleTree == [p \in Paths |-> IF p \in SamplePaths THEN NewFile(p) ELSE Absent]

Fresh(t, a, w, f) ==
    /\ tool = t /\ args = a /\ on_path = w /\ fs = f /\ fs0 = f
    /\ pc = "start" /\ second = FALSE /\ out1 = {}
    /\ exts = {} /\ listing = {} /\ yielded = {} /\ nyield = 0
    /\ total = 0 /\ counted = {} /\ log = [p \in Paths |-> {}]
    /\ invoked = {} /\ removed = {} /\ summary = NoSummary /\ status = -1

\* Valid command lines over every tree.
InitTrees ==
    \E t \in Tools, recursive \in BOOLEAN, flag \in BOOLEAN,
       ext \in {E_default, E_mixed}, f \in Trees :
        Fresh(t, Args(t, "root", recursive, DefaultQuality, flag, ext), TRUE, f)

\* Every command line over the sample tree.
InitArgs ==
    \E t \in Tools, directory \in {"root", "missing"}, q \in Qualities,
       ext \in ExtValues, w \in BOOLEAN :
        /\ (t = "strip_only" => q = DefaultQuality)
        /\ Fresh(t, Args(t, directory, FALSE, q, FALSE, ext), w, SampleTree)

Init == InitTrees \/ InitArgs

---------------------------------------------------------------------------
(* main(): argument checks *)

Loop == <<tool, args, on_path, fs0, second, out1>>

Exit(where, code, s) ==
    /\ pc' = where /\ status' = code /\ summary' = s
    /\ UNCHANGED <<Loop, fs, exts, listing, yielded, nyield, total, counted, log,
                   invoked, removed>>

\* The checks every main() makes before its loop, in the order of the code;
\* checks_quality and needs_exiftool say which of them the script has.
Prologue(checks_quality, needs_exiftool) ==
    IF args.directory # "root"
    THEN Exit("usage_error", 2, NoSummary)
    ELSE IF checks_quality /\ ~(MinQuality <= args.quality /\ args.quality <= MaxQuality)
    THEN Exit("usage_error", 2, NoSummary)
    ELSE IF needs_exiftool /\ ~on_path
    THEN Exit("tool_missing", 1, NoSummary)
    ELSE IF normalise_exts(args.ext) = {}
    THEN Exit("usage_error", 2, NoSummary)
    ELSE /\ exts' = normalise_exts(args.ext)
         /\ listing' = iterator(fs, args.recursive)
         /\ pc' = "loop"
         /\ UNCHANGED <<Loop, fs, yielded, nyield, total, counted, log, invoked,
                        removed, summary, status>>

StripConvertMain == pc = "start" /\ tool = "strip_convert" /\ Prologue(TRUE, TRUE)
HeicToJpgMain == pc = "start" /\ tool = "heic_to_jpg" /\ Prologue(TRUE, FALSE)
SanitizeMain == pc = "start" /\ tool = "sanitize" /\ Prologue(TRUE, FALSE)

\* strip_heic_metadata.main has no --quality and collects list(discover(...))
\* before its loop; an empty list ends the run.
StripOnlyMain ==
    /\ pc = "start" /\ tool = "strip_only"
    /\ IF args.directory # "root"
       THEN Exit("usage_error", 2, NoSummary)
       ELSE IF ~on_path
       THEN Exit("tool_missing", 1, NoSummary)
       ELSE IF normalise_exts(args.ext) = {}
       THEN Exit("usage_error", 2, NoSummary)
       ELSE LET x == normalise_exts(args.ext)
                files == {p \in iterator(fs, args.recursive) : matches(fs, p, x)}
            IN  /\ exts' = x
                /\ yielded' = files /\ nyield' = Cardinality(files)
                /\ listing' = files
                /\ IF files = {}
                   THEN pc' = "done" /\ status' = 0 /\ summary' = NoneMatched
                   ELSE pc' = "loop" /\ UNCHANGED <<status, summary>>
                /\ UNCHANGED <<Loop, fs, total, counted, log, invoked, removed>>

---------------------------------------------------------------------------
(* main(): the per-file loop *)

\* The generator passes over an entry that fails discover()'s filter.
discover ==
    /\ pc = "loop" /\ tool \in ConvertTools
    /\ \E p \in listing :
        /\ ~matches(fs, p, exts)
        /\ listing' = listing \ {p}
    /\ UNCHANGED <<Loop, fs, pc, exts, yielded, nyield, total, counted, log,
                   invoked, removed, summary, status>>

\* One iteration of the for loop over p, whose try body gave r; `caught` says
\* whether one of main()'s except clauses handles r.exc and prints [ERROR].
Iteration(p, r, ran_exiftool, caught) ==
    /\ listing' = listing \ {p}
    /\ fs' = r.fs
    /\ removed' = removed \cup r.gone
    /\ invoked' = IF ran_exiftool THEN invoked \cup {p} ELSE invoked
    /\ IF r.exc = "none"
       THEN /\ total' = total + 1 /\ counted' = counted \cup {p}
            /\ log' = [log EXCEPT ![p] = @ \cup r.lines]
            /\ UNCHANGED <<pc, status>>
       ELSE IF caught
       THEN /\ log' = [log EXCEPT ![p] = @ \cup r.lines \cup {"ERROR"}]
            /\ UNCHANGED <<pc, status, total, counted>>
       ELSE /\ log' = [log EXCEPT ![p] = @ \cup r.lines]
            /\ pc' = "crashed" /\ status' = 1
            /\ UNCHANGED <<total, counted>>
    /\ UNCHANGED <<Loop, exts, summary>>

Yield(p) ==
    /\ p \in listing /\ matches(fs, p, exts)
    /\ yielded' = yielded \cup {p} /\ nyield' = nyield + 1

\* heic_strip_and_convert_to_jpg: strip, then convert.  The first except
\* clause decodes exc.stderr strictly, the second catches Exception.
StripConvertTry(f, p, o) ==
    LET r == strip_all_metadata(f, p, o)
    IN  IF r.exc # "none" THEN r
        ELSE convert_to_jpg(r.fs, p, args.quality, delete_originals(tool, args), o)

StripConvertCaught(exc) == exc # "CalledProcessError_undecodable"

StripConvertLoop ==
    /\ pc = "loop" /\ tool = "strip_convert"
    /\ \E p \in listing, o \in Oracles :
        /\ Yield(p)
        /\ LET r == StripConvertTry(fs, p, o)
           IN  Iteration(p, r, TRUE, StripConvertCaught(r.exc))

HeicToJpgCaught(exc) == TRUE

HeicToJpgLoop ==
    /\ pc = "loop" /\ tool = "heic_to_jpg"
    /\ \E p \in listing, o \in NoExif :
        /\ Yield(p)
        /\ LET r == convert(fs, p, args.quality, delete_originals(tool, args), o)
           IN  Iteration(p, r, FALSE, HeicToJpgCaught(r.exc))

SanitizeCaught(exc) == TRUE

SanitizeLoop ==
    /\ pc = "loop" /\ tool = "sanitize"
    /\ \E p \in listing, o \in NoExif :
        /\ Yield(p)
        /\ LET r == sanitize_convert(fs, p, args.quality, delete_originals(tool, args), o)
           IN  Iteration(p, r, FALSE, SanitizeCaught(r.exc))

\* strip_heic_metadata: only CalledProcessError is caught (its stderr is
\* decoded with errors="ignore"); [OK] is printed after the count.
StripOnlyTry(f, p, o) ==
    LET r == strip_metadata(f, p, args.keep_datetimes, o)
    IN  IF r.exc # "none" THEN r ELSE Ret(r.fs, {"OK"}, {}, "none")

StripOnlyCaught(exc) == exc \in {"CalledProcessError", "CalledProcessError_undecodable"}

StripOnlyLoop ==
    /\ pc = "loop" /\ tool = "strip_only"
    /\ \E p \in listing, o \in ExifOnly :
        /\ LET r == StripOnlyTry(fs, p, o)
           IN  Iteration(p, r, TRUE, StripOnlyCaught(r.exc))
    /\ UNCHANGED <<yielded, nyield>>

---------------------------------------------------------------------------
(* main(): the summary *)

\* The summary without its test for zero: the slip that C7 excludes.
ConvertSummary_NoZeroTest == Processed(total)

\* if total == 0: "No matching files ..." else "Done. ... {total} file(s)."
ConvertSummary == IF total = 0 THEN NoneProcessed ELSE Processed(total)

StripConvertSummary ==
    pc = "loop" /\ tool = "strip_convert" /\ listing = {} /\ Exit("done", 0, ConvertSummary)
HeicToJpgSummary ==
    pc = "loop" /\ tool = "heic_to_jpg" /\ listing = {} /\ Exit("done", 0, ConvertSummary)
SanitizeSummary ==
    pc = "loop" /\ tool = "sanitize" /\ listing = {} /\ Exit("done", 0, ConvertSummary)

\* print(f"Done. Processed {count} file{'s' if count != 1 else ''}.")
StripOnlySummary ==
    pc = "loop" /\ tool = "strip_only" /\ listing = {} /\ Exit("done", 0, Processed(total))

---------------------------------------------------------------------------
(* The user starts the same command line again on the tree the first run   *)
(* left, the sources having been kept.                                     *)

Rerun ==
    /\ pc = "done" /\ ~second
    /\ tool \in ConvertTools /\ ~delete_originals(tool, args)
    /\ second' = TRUE
    /\ out1' = Existing(fs) \ Existing(fs0)
    /\ fs0' = fs
    /\ pc' = "start" /\ exts' = {} /\ listing' = {} /\ yielded' = {} /\ nyield' = 0
    /\ total' = 0 /\ counted' = {} /\ log' = [p \in Paths |-> {}]
    /\ invoked' = {} /\ removed' = {} /\ summary' = NoSummary /\ status' = -1
    /\ UNCHANGED <<tool, args, on_path, fs>>

Next ==
    \/ StripConvertMain \/ HeicToJpgMain \/ SanitizeMain \/ StripOnlyMain
    \/ discover
    \/ StripConvertLoop \/ HeicToJpgLoop \/ SanitizeLoop \/ StripOnlyLoop
    \/ StripConvertSummary \/ HeicToJpgSummary \/ SanitizeSummary \/ StripOnlySummary
    \/ Rerun

Spec == Init /\ [][Next]_vars

---------------------------------------------------------------------------
(* Vocabulary of the properties *)

Dst(p) == with_suffix(p, S_jpg)

\* The deletion switch as the documentation of the scripts states it.
DeleteEnabled ==
    \/ tool = "strip_convert" /\ ~args.keep
    \/ tool \in {"heic_to_jpg", "sanitize"} /\ args.delete

\* The extension of a path, lower-cased and without its dot, read off the name.
Extension(p) ==
    CASE p.suffix \in {S_heic, S_HEIC} -> <<"h", "e", "i", "c">>
      [] p.suffix = S_heif -> <<"h", "e", "i", "f">>
      [] p.suffix = S_jpg  -> <<"j", "p", "g">>
      [] OTHER             -> <<"t", "x", "t">>

\* The regular files of the tree the run started from that lie in scope of
\* the traversal and carry one of the configured extensions.
Matching ==
    {p \in Paths : /\ fs0[p].type = "file"
                   /\ (args.recursive \/ p.dir = "root")
                   /\ Extension(p) \in exts}

\* An --ext value none of whose comma-separated tokens holds a character
\* other than blanks.
BlankExt(ext) == \A i \in 1..Len(ext) : ext[i] \in {" ", ","}

UsageError ==
    \/ args.directory = "missing"
    \/ tool \in ConvertTools /\ (args.quality < 1 \/ args.quality > 100)
    \/ BlankExt(args.ext)

\* The iteration of the loop taken in this step, if any, is the one over p.
Processes(p) == pc = "loop" /\ p \in listing /\ p \notin listing' /\ matches(fs, p, exts)

---------------------------------------------------------------------------
(* C1 *)

\* C1: an exception raised while one discovered file is processed is caught
\* for that file alone, so no run is ended by it before the summary.
C1_NoRunAborts == pc # "crashed"

---------------------------------------------------------------------------
(* C2 *)

\* C2 as stated: a source is unlinked only after the convert step for that
\* same source has succeeded in writing its destination ([OK]).
C2_UnlinkOnlyAfterConvert == \A p \in removed : "OK" \in log[p]

\* C2 amended: a source is unlinked only in an iteration in which convert
\* returned without raising, having written the destination ([OK]) or, in
\* heic_strip_and_convert_to_jpg alone, having found it present ([SKIP]);
\* the destination path exists right after the unlink unless it is the
\* source itself; and a source whose iteration raised still exists.
C2_UnlinkAfterConvertOrSkip ==
    [][\A p \in Paths :
        /\ (p \in removed' /\ p \notin removed) =>
              /\ Processes(p)
              /\ "ERROR" \notin log'[p] /\ p \in counted'
              /\ "OK" \in log'[p] \/ (tool = "strip_convert" /\ "SKIP" \in log'[p])
              /\ Exists(fs'[Dst(p)]) \/ Dst(p) = p
        /\ (Processes(p) /\ (p \notin counted' \/ "ERROR" \in log'[p])) =>
              /\ Exists(fs'[p]) /\ p \notin removed'
              /\ fs'[p].img = fs[p].img]_vars

\* A source was unlinked on the [SKIP] path, its destination being another file.
C2_Witness ==
    \E p \in removed : "SKIP" \in log[p] /\ Dst(p) # p /\ Exists(fs[Dst(p)])

---------------------------------------------------------------------------
(* C3 *)

\* C3: the success counter is incremented only for a file whose transform
\* fully succeeded; a skipped file and a failed file are not counted.
C3_SkippedNotCounted ==
    /\ total = Cardinality(counted)
    /\ \A p \in counted : "SKIP" \notin log[p] /\ "ERROR" \notin log[p]

---------------------------------------------------------------------------
(* C4 *)

C4_Step ==
    \A p \in Paths :
        (tool \in ConvertTools /\ Processes(p)) =>
            \A d \in Paths :
                Exists(fs[d]) =>
                    /\ d # p => fs'[d] = fs[d]
                    /\ Exists(fs'[d]) => fs'[d].img = fs[d].img
                    /\ d = Dst(p) => "OK" \notin log'[p]
                    /\ (d = Dst(p) /\ p \in counted') => "SKIP" \in log'[p]

C4_Second ==
    second =>
        /\ \A d \in out1 : fs[d] = fs0[d]
        /\ \A p \in Paths :
              (log[p] # {} /\ Exists(fs0[Dst(p)])) =>
                  /\ "OK" \notin log[p]
                  /\ "SKIP" \in log[p] \/ "ERROR" \in log[p] \/ pc = "crashed"

---------------------------------------------------------------------------
(* C5 *)

\* C5: a command line with a missing directory, a --quality outside 1..100
\* or an --ext value that normalises to no extension ends the process with a
\* non-zero status before any file is discovered, created, modified or
\* deleted and before ExifTool runs on any file.
C5_UsageErrorBeforeAnyEffect ==
    (UsageError /\ pc # "start") =>
        /\ pc \in {"usage_error", "tool_missing"}
        /\ status # 0 /\ status # -1
        /\ fs = fs0 /\ invoked = {} /\ removed = {}
        /\ listing = {} /\ yielded = {} /\ nyield = 0
        /\ summary = NoSummary

\* A run over a tree with pictures in it was refused for its --quality.
C5_Witness ==
    /\ pc = "usage_error" /\ args.directory = "root" /\ ~BlankExt(args.ext)
    /\ args.quality > 100 /\ Existing(fs) # {}

---------------------------------------------------------------------------
(* C6 *)

\* C6: discover yields exactly the regular files in scope whose extension,
\* lower-cased and without its dot, is configured, each exactly once: never
\* anything else, and all of them by the time the loop has ended.
C6_DiscoverExact ==
    /\ yielded \subseteq Matching
    /\ nyield = Cardinality(yielded)
    /\ pc = "done" => (yielded = Matching /\ nyield = Cardinality(Matching))

\* A recursive run has yielded an upper-case name of the sub-folder and has
\* passed over another entry.
C6_Witness ==
    /\ pc = "done" /\ args.recursive
    /\ \E p \in yielded : p.dir = "sub" /\ p.suffix = S_HEIC
    /\ Existing(fs0) \ yielded # {}

---------------------------------------------------------------------------
(* C7 *)

\* C7 as stated: the summary has the "no files matched" shape exactly when
\* nothing was discovered, the "no files processed" shape exactly when
\* something was discovered and the count is 0, and is "processed N" otherwise.
C7_ThreeShapes ==
    pc = "done" =>
        /\ summary.shape = "no_files_matched" <=> nyield = 0
        /\ summary.shape = "no_files_processed" <=> (nyield > 0 /\ total = 0)
        /\ summary.shape = "processed" <=> total > 0

\* C7 amended: a run that completes its loop prints one summary, and no
\* other run prints any.  The three convert tools print the "no files
\* processed" shape exactly when the count is 0, files discovered or not,
\* and "processed N" otherwise; strip_heic_metadata prints the "no files
\* matched" shape exactly when nothing was discovered and "processed N"
\* otherwise, also for N = 0.  N is the count and the noun is singular
\* exactly when N = 1.
C7_TwoShapesPerTool ==
    /\ total = Cardinality(counted)
    /\ pc # "done" => summary.shape = "none"
    /\ pc = "done" =>
        /\ summary.shape \in {"no_files_matched", "no_files_processed", "processed"}
        /\ tool \in ConvertTools =>
              /\ summary.shape = "no_files_processed" <=> total = 0
              /\ summary.shape # "no_files_matched"
        /\ tool = "strip_only" =>
              /\ summary.shape = "no_files_matched" <=> nyield = 0
              /\ summary.shape # "no_files_processed"
        /\ summary.shape = "processed" =>
              /\ summary.n = total
              /\ summary.noun = "file" <=> total = 1
              /\ summary.noun = "files" <=> total # 1

\* strip_heic_metadata found files, stripped none and printed "processed 0".
C7_Witness ==
    /\ pc = "done" /\ tool = "strip_only" /\ nyield > 0
    /\ summary.shape = "processed" /\ summary.n = 0

---------------------------------------------------------------------------
(* C8 *)

\* C8: heic_strip_and_convert_to_jpg unlinks sources unless --keep is given,
\* heic_to_jpg and sanitize_heic_to_jpg only when --delete is given, and
\* strip_heic_metadata neither deletes nor creates a file; with deletion not
\* enabled every file present before the run is present after it.
C8_DeletionGated ==
    /\ removed # {} => DeleteEnabled
    /\ ~DeleteEnabled => Existing(fs0) \subseteq Existing(fs)
    /\ tool = "strip_only" => Existing(fs) = Existing(fs0)
    /\ \A p \in Paths : "DELETED" \in log[p] => p \in removed
    /\ DeleteEnabled =>
          \A p \in counted : "OK" \in log[p] => (p \in removed /\ "DELETED" \in log[p])

\* A run with the sources kept has converted one file and failed on another.
C8_Witness ==
    /\ pc = "done" /\ tool \in ConvertTools /\ ~DeleteEnabled
    /\ \E p, q \in yielded : "OK" \in log[p] /\ "ERROR" \in log[q]

---------------------------------------------------------------------------
(* C9 *)

\* What main()'s try body does to p on tree f.
Try(f, p, o) ==
    CASE tool = "strip_convert" -> StripConvertTry(f, p, o)
      [] tool = "heic_to_jpg" ->
            convert(f, p, args.quality, delete_originals(tool, args), o)
      [] tool = "sanitize" ->
            sanitize_convert(f, p, args.quality, delete_originals(tool, args), o)
      [] OTHER -> StripOnlyTry(f, p, o)

\* C9: the outcome of every file is one it can have when it is processed
\* first, on the tree the run started from: no other file's processing, and
\* so no discovery order, changes it.
C9_OutcomeIndependent ==
    \A p \in yielded :
        log[p] # {} =>
            \E o \in Oracles :
                LET r == Try(fs0, p, o)
                IN  /\ log[p] \ {"ERROR"} = r.lines
                    /\ (p \in counted) <=> (r.exc = "none")
                    /\ (p \in removed) <=> (p \in r.gone)

---------------------------------------------------------------------------
(* C10 *)

\* C10: whenever heic_strip_and_convert_to_jpg unlinks a source, the
\* destination is another path and exists right after the unlink.
C10_DestinationSurvives ==
    [][tool = "strip_convert" =>
        \A p \in removed' \ removed : Dst(p) # p /\ Exists(fs'[Dst(p)])]_vars

====
